---- MODULE Spec2Model ----
(***************************************************************************)
(* Table catalog and configuration registry of internal/kv/tables.go.      *)
(*                                                                         *)
(* The package keeps, per catalog (chain-data, tx-pool, sentry,            *)
(* downloader, recon), a global list of table names and a global map from  *)
(* table name to TableCfgItem.  init() calls reinit(), which sorts the     *)
(* chain-data list and fills the maps.  Table names are Go strings; they   *)
(* are modelled as TLA+ strings whose bytes are given by Bytes, so that    *)
(* strings.Compare is computed byte by byte as Go computes it.             *)
(***************************************************************************)
EXTENDS Integers, Sequences, FiniteSets, TLC

VARIABLES
    ChaindataTables,            \* []string, sorted by reinit
    TxPoolTables,               \* []string
    SentryTables,               \* []string
    DownloaderTables,           \* []string
    ReconTables,                \* []string
    ChaindataDeprecatedTables,  \* []string
    ChaindataTablesCfg,         \* TableCfg: map[string]TableCfgItem
    TxpoolTablesCfg,
    SentryTablesCfg,
    DownloaderTablesCfg,
    ReconTablesCfg,
    runs,                       \* completed calls of reinit (init() is the first)
    declared,                   \* ChaindataTables as declared, before any reinit
    lookup,                     \* result of the last map lookup, or NoLookup
    codec,                      \* last DupSort transformation, or NoCodec
    conc                        \* position of init() and what each reader saw

vars == <<ChaindataTables, TxPoolTables, SentryTables, DownloaderTables,
          ReconTables, ChaindataDeprecatedTables, ChaindataTablesCfg,
          TxpoolTablesCfg, SentryTablesCfg, DownloaderTablesCfg,
          ReconTablesCfg, runs, declared, lookup, codec, conc>>

-----------------------------------------------------------------------------
(* Bounds of the model. *)

\* longest chain-data table list that is declared
MaxTables == 3
\* longest deprecated list that is declared
MaxDeprecated == 2
\* reinit is called at most this many times (init() and re-initialisations)
MaxRuns == 2
\* the byte patterns 0..MaxSeed are used to build keys and values
MaxSeed == 1
\* longest value handed to the DupSort transformation
MaxValLen == 2
\* threads that read the lists and maps
MaxReaders == 2

-----------------------------------------------------------------------------
(* Table names and their bytes. *)

Bytes ==
    [Code |-> <<67,111,100,101>>,
     CodeKeys |-> <<67,111,100,101,75,101,121,115>>,
     HashedStorage |-> <<72,97,115,104,101,100,83,116,111,114,97,103,101>>,
     PlainState |-> <<80,108,97,105,110,83,116,97,116,101>>,
     Clique |-> <<67,108,105,113,117,101>>,
     TransitionBlock |-> <<84,114,97,110,115,105,116,105,111,110,66,108,111,99,107>>,
     RecentLocalTransaction |-> <<82,101,99,101,110,116,76,111,99,97,108,84,114,97,110,115,97,99,116,105,111,110>>,
     PoolTransaction |-> <<80,111,111,108,84,114,97,110,115,97,99,116,105,111,110>>,
     PoolInfo |-> <<80,111,111,108,73,110,102,111>>,
     BittorrentCompletion |-> <<66,105,116,116,111,114,114,101,110,116,67,111,109,112,108,101,116,105,111,110>>,
     BittorrentInfo |-> <<66,105,116,116,111,114,114,101,110,116,73,110,102,111>>,
     XAccount |-> <<88,65,99,99,111,117,110,116>>,
     XStorage |-> <<88,83,116,111,114,97,103,101>>,
     XCode |-> <<88,67,111,100,101>>,
     PlainStateR |-> <<80,108,97,105,110,83,116,97,116,101,82>>,
     CodeR |-> <<67,111,100,101,82>>,
     PlainContractR |-> <<80,108,97,105,110,67,111,110,116,114,97,99,116,82>>,
     peerID |-> <<112,101,101,114,73,68>>]

\* Chain-data tables the model declares lists of: one without explicit
\* configuration, one that is a byte prefix extension of it, and the two
\* tables configured with AutoDupSortKeysConversion.
ChaindataNames == {"Code", "CodeKeys", "HashedStorage", "PlainState"}

\* Names a deprecated list is drawn from: the two the source deprecates
\* (neither is in ChaindataTables) and a declared, explicitly configured
\* chain-data table.
DeprecatedNames == {"Clique", "TransitionBlock", "PlainState"}

Catalogs == {"chaindata", "txpool", "sentry", "downloader", "recon"}

Range(s) == {s[i] : i \in DOMAIN s}

\* All lists over S of length at most n
Lists(S, n) == UNION {[1..k -> S] : k \in 0..n}

\* The lists of Lists(S, n) in which no name occurs twice
UniqueLists(S, n) == {q \in Lists(S, n) : Cardinality(Range(q)) = Len(q)}

-----------------------------------------------------------------------------
(* TableFlags and TableCfgItem. *)

Default == 0
DupSort == 4

\* TableCfgItem{}: the zero value of the struct
ZeroItem ==
    [Flags |-> Default, AutoDupSortKeysConversion |-> FALSE,
     IsDeprecated |-> FALSE, DBI |-> 0, DupFromLen |-> 0, DupToLen |-> 0]

\* The literal with PlainState's DupToLen set to the width of the suffix
\* (60 - 28) instead of the length of the prefix
ChaindataTablesCfgLiteralWidth ==
    [HashedStorage |->
        [ZeroItem EXCEPT !.Flags = DupSort,
                         !.AutoDupSortKeysConversion = TRUE,
                         !.DupFromLen = 72, !.DupToLen = 40],
     PlainState |->
        [ZeroItem EXCEPT !.Flags = DupSort,
                         !.AutoDupSortKeysConversion = TRUE,
                         !.DupFromLen = 60, !.DupToLen = 32],
     CodeKeys |-> [ZeroItem EXCEPT !.Flags = DupSort]]

\* The literal with HashedStorage's DupFromLen and DupToLen exchanged
ChaindataTablesCfgLiteralSwapped ==
    [HashedStorage |->
        [ZeroItem EXCEPT !.Flags = DupSort,
                         !.AutoDupSortKeysConversion = TRUE,
                         !.DupFromLen = 40, !.DupToLen = 72],
     PlainState |->
        [ZeroItem EXCEPT !.Flags = DupSort,
                         !.AutoDupSortKeysConversion = TRUE,
                         !.DupFromLen = 60, !.DupToLen = 28],
     CodeKeys |-> [ZeroItem EXCEPT !.Flags = DupSort]]

\* The entries of the ChaindataTablesCfg literal for the tables of
\* ChaindataNames.
ChaindataTablesCfgLiteral ==
    [HashedStorage |->
        [ZeroItem EXCEPT !.Flags = DupSort,
                         !.AutoDupSortKeysConversion = TRUE,
                         !.DupFromLen = 72, !.DupToLen = 40],
     PlainState |->
        [ZeroItem EXCEPT !.Flags = DupSort,
                         !.AutoDupSortKeysConversion = TRUE,
                         !.DupFromLen = 60, !.DupToLen = 28],
     CodeKeys |-> [ZeroItem EXCEPT !.Flags = DupSort]]

\* The literal's entries for the declared tables: the source configures
\* explicitly only tables that are in ChaindataTables.
ExplicitCfg(list) ==
    [n \in (DOMAIN ChaindataTablesCfgLiteral) \cap Range(list) |->
        ChaindataTablesCfgLiteral[n]]

\* TableCfg{}: the empty map
EmptyCfg == [n \in {} |-> ZeroItem]

TxPoolTablesLiteral == <<"RecentLocalTransaction", "PoolTransaction", "PoolInfo">>
SentryTablesLiteral == <<>>
DownloaderTablesLiteral == <<"BittorrentCompletion", "BittorrentInfo">>
ReconTablesLiteral ==
    <<"XAccount", "XStorage", "XCode", "PlainStateR", "CodeR", "PlainContractR">>

-----------------------------------------------------------------------------
(* sortBuckets. *)

\* strings.Compare on the bytes of two strings: -1, 0 or 1
RECURSIVE CompareBytes(_, _)
CompareBytes(a, b) ==
    IF a = <<>> THEN (IF b = <<>> THEN 0 ELSE -1)
    ELSE IF b = <<>> THEN 1
    ELSE IF Head(a) < Head(b) THEN -1
    ELSE IF Head(a) > Head(b) THEN 1
    ELSE CompareBytes(Tail(a), Tail(b))

Compare(x, y) == CompareBytes(Bytes[x], Bytes[y])

\* Less with the comparison turned round
LessReversed(x, y) == Compare(x, y) > 0

\* the less function handed to sort.SliceStable
Less(x, y) == Compare(x, y) < 0

\* x inserted into the sorted list s behind every element that is not
\* greater than it
RECURSIVE Insert(_, _)
Insert(s, x) ==
    IF s = <<>> THEN <<x>>
    ELSE IF Less(x, Head(s)) THEN <<x>> \o s
    ELSE <<Head(s)>> \o Insert(Tail(s), x)

\* sort.SliceStable with Less: equal elements keep their order
RECURSIVE SliceStable(_)
SliceStable(s) ==
    IF s = <<>> THEN <<>>
    ELSE Insert(SliceStable(SubSeq(s, 1, Len(s) - 1)), s[Len(s)])

\* One pass of adjacent exchanges over s, from position i on
RECURSIVE OnePass(_, _)
OnePass(s, i) ==
    IF i >= Len(s) THEN s
    ELSE IF Less(s[i + 1], s[i])
         THEN OnePass([s EXCEPT ![i] = s[i + 1], ![i + 1] = s[i]], i + 1)
         ELSE OnePass(s, i + 1)

\* sortBuckets that stops after one pass of exchanges
sortBucketsOnePass(list) == OnePass(list, 1)

\* sortBuckets that leaves the list as declared
sortBucketsNone(list) == list

\* sortBuckets sorts ChaindataTables, and no other list
sortBuckets(list) == SliceStable(list)

-----------------------------------------------------------------------------
(* reinit. *)

\* FillDefaults that inserts an entry with Flags DupSort in place of the
\* zero value
FillDefaultsDupSort(c, list) ==
    [n \in (DOMAIN c) \cup Range(list) |->
        IF n \in DOMAIN c THEN c[n] ELSE [ZeroItem EXCEPT !.Flags = DupSort]]

\* FillDefaults without the test: every listed name gets the zero value
FillDefaultsOverwrite(c, list) ==
    [n \in (DOMAIN c) \cup Range(list) |->
        IF n \in Range(list) THEN ZeroItem ELSE c[n]]

\* FillDefaults with the test inverted: `if ok` in place of `if !ok`
FillDefaultsInverted(c, list) ==
    [n \in DOMAIN c |-> IF n \in Range(list) THEN ZeroItem ELSE c[n]]

\* for _, name := range list { if _, ok := c[name]; !ok { c[name] = TableCfgItem{} } }
FillDefaults(c, list) ==
    [n \in (DOMAIN c) \cup Range(list) |->
        IF n \in DOMAIN c THEN c[n] ELSE ZeroItem]

\* MarkDeprecated without the creation of a missing entry
MarkDeprecatedExisting(c, dep) ==
    [n \in DOMAIN c |->
        IF n \in Range(dep) THEN [c[n] EXCEPT !.IsDeprecated = TRUE] ELSE c[n]]

\* the loop over ChaindataDeprecatedTables: create the entry if there is
\* none, then set IsDeprecated
MarkDeprecated(c, dep) ==
    [n \in (DOMAIN c) \cup Range(dep) |->
        IF n \in Range(dep)
        THEN [(IF n \in DOMAIN c THEN c[n] ELSE ZeroItem)
                 EXCEPT !.IsDeprecated = TRUE]
        ELSE c[n]]

\* The chain-data list and map reinit leaves, from those it finds
reinitChaindata(list, c, dep) ==
    LET sorted == sortBuckets(list)
    IN  [tables |-> sorted,
         cfg |-> MarkDeprecated(FillDefaults(c, sorted), dep)]

\* The list and map reinit leaves for a catalog other than chain-data: the
\* list is not touched, the map gets the missing entries
reinitOther(list, c) == [tables |-> list, cfg |-> FillDefaults(c, list)]

reinit ==
    /\ runs < MaxRuns
    /\ LET r == reinitChaindata(ChaindataTables, ChaindataTablesCfg,
                                ChaindataDeprecatedTables)
       IN  /\ ChaindataTables' = r.tables
           /\ ChaindataTablesCfg' = r.cfg
    /\ TxpoolTablesCfg' = reinitOther(TxPoolTables, TxpoolTablesCfg).cfg
    /\ SentryTablesCfg' = reinitOther(SentryTables, SentryTablesCfg).cfg
    /\ DownloaderTablesCfg' = reinitOther(DownloaderTables, DownloaderTablesCfg).cfg
    /\ ReconTablesCfg' = reinitOther(ReconTables, ReconTablesCfg).cfg
    /\ runs' = runs + 1
    /\ UNCHANGED <<TxPoolTables, SentryTables, DownloaderTables, ReconTables,
                   ChaindataDeprecatedTables, declared, lookup, codec, conc>>

-----------------------------------------------------------------------------
(* Lookup in a configuration map. *)

Tables(catalog) ==
    CASE catalog = "chaindata" -> ChaindataTables
      [] catalog = "txpool" -> TxPoolTables
      [] catalog = "sentry" -> SentryTables
      [] catalog = "downloader" -> DownloaderTables
      [] catalog = "recon" -> ReconTables

Cfg(catalog) ==
    CASE catalog = "chaindata" -> ChaindataTablesCfg
      [] catalog = "txpool" -> TxpoolTablesCfg
      [] catalog = "sentry" -> SentryTablesCfg
      [] catalog = "downloader" -> DownloaderTablesCfg
      [] catalog = "recon" -> ReconTablesCfg

\* The deprecated list of a catalog: only chain-data has one
Deprecated(catalog) ==
    IF catalog = "chaindata" THEN ChaindataDeprecatedTables ELSE <<>>

\* Lookup that hands out the zero value of a missing key as an entry
LookupDefault(c, name) ==
    [ok |-> TRUE, item |-> IF name \in DOMAIN c THEN c[name] ELSE ZeroItem]

\* item, ok := c[name]: the entry and true, or the zero value and false
Lookup(c, name) ==
    IF name \in DOMAIN c
    THEN [ok |-> TRUE, item |-> c[name]]
    ELSE [ok |-> FALSE, item |-> ZeroItem]

NoLookup == [catalog |-> "", name |-> "", ok |-> FALSE, item |-> ZeroItem]

\* Names that are looked up: a chain-data table, a deprecated table, a
\* tx-pool table, and a string that names no table.
LookupNames == {"Code", "Clique", "PoolInfo", "peerID"}

\* A reader consults a map; package initialisation has run init() before
\* any reader exists.
LookupTable ==
    /\ runs >= 1
    /\ \E catalog \in Catalogs, name \in LookupNames :
          LET r == Lookup(Cfg(catalog), name)
          IN  lookup' = [catalog |-> catalog, name |-> name,
                         ok |-> r.ok, item |-> r.item]
    /\ UNCHANGED <<ChaindataTables, TxPoolTables, SentryTables,
                   DownloaderTables, ReconTables, ChaindataDeprecatedTables,
                   ChaindataTablesCfg, TxpoolTablesCfg, SentryTablesCfg,
                   DownloaderTablesCfg, ReconTablesCfg, runs, declared, codec,
                   conc>>

-----------------------------------------------------------------------------
(* Specification of the registry. *)

NoCodec ==
    [op |-> "none", table |-> "", key |-> <<>>, value |-> <<>>,
     pkey |-> <<>>, pvalue |-> <<>>, dkey |-> <<>>, dvalue |-> <<>>]

Readers == 1..MaxReaders

NoSnapshot == [catalog |-> "", tables |-> <<>>, cfg |-> EmptyCfg]

\* init() has not started, no call of reinit has begun, no reader has read
NoConc ==
    [pc |-> "start", calls |-> 0, seen |-> [r \in Readers |-> NoSnapshot]]

\* The globals as declared, with list the chain-data list and dep the
\* deprecated list
Declared(list, dep) ==
    /\ ChaindataTables = list
    /\ ChaindataDeprecatedTables = dep
    /\ ChaindataTablesCfg = ExplicitCfg(list)
    /\ TxPoolTables = TxPoolTablesLiteral
    /\ SentryTables = SentryTablesLiteral
    /\ DownloaderTables = DownloaderTablesLiteral
    /\ ReconTables = ReconTablesLiteral
    /\ TxpoolTablesCfg = EmptyCfg
    /\ SentryTablesCfg = EmptyCfg
    /\ DownloaderTablesCfg = EmptyCfg
    /\ ReconTablesCfg = EmptyCfg
    /\ runs = 0
    /\ declared = list
    /\ lookup = NoLookup
    /\ codec = NoCodec
    /\ conc = NoConc

Init ==
    \E list \in UniqueLists(ChaindataNames, MaxTables),
       dep \in UniqueLists(DeprecatedNames, MaxDeprecated) :
          Declared(list, dep)

Next == reinit \/ LookupTable

Spec == Init /\ [][Next]_vars

-----------------------------------------------------------------------------
(* Declarations in which a name occurs twice. *)

HasDuplicate(list) == Cardinality(Range(list)) < Len(list)

\* The deprecated list as the source declares it
ChaindataDeprecatedTablesLiteral == <<"Clique", "TransitionBlock">>

InitDup ==
    \E list \in Lists(ChaindataNames, MaxTables) :
        Declared(list, ChaindataDeprecatedTablesLiteral)

SpecDup == InitDup /\ [][Next]_vars

-----------------------------------------------------------------------------
(* DupSort key/value transformation, parameterised by a TableCfgItem. *)

\* A key of the given length: byte i is a function of i and of the seed
Key(len, seed) == [i \in 1..len |-> (i + 101 * seed) % 256]

\* A value of the given length
Value(len, seed) == [i \in 1..len |-> (200 + i + 3 * seed) % 256]

\* Key lengths tried: every DupFromLen and DupToLen of the literal
KeyLens ==
    UNION {{ChaindataTablesCfgLiteral[n].DupFromLen,
            ChaindataTablesCfgLiteral[n].DupToLen} :
                 n \in DOMAIN ChaindataTablesCfgLiteral}

\* v = append(k[DupToLen:], v...); k = k[:DupToLen], for a key of length
\* DupFromLen of a table with AutoDupSortKeysConversion; any other key and
\* value pass through
Encode(c, k, v) ==
    IF c.AutoDupSortKeysConversion /\ Len(k) = c.DupFromLen
    THEN [key |-> SubSeq(k, 1, c.DupToLen),
          value |-> SubSeq(k, c.DupToLen + 1, Len(k)) \o v]
    ELSE [key |-> k, value |-> v]

\* The opposite at retrieval: the first DupFromLen - DupToLen bytes of the
\* physical value go back to the end of the key
Decode(c, pk, pv) ==
    LET width == c.DupFromLen - c.DupToLen
    IN  IF c.AutoDupSortKeysConversion /\ Len(pv) >= width
        THEN [key |-> pk \o SubSeq(pv, 1, width),
              value |-> SubSeq(pv, width + 1, Len(pv))]
        ELSE [key |-> pk, value |-> pv]

UnchangedRegistry ==
    UNCHANGED <<ChaindataTables, TxPoolTables, SentryTables,
                DownloaderTables, ReconTables, ChaindataDeprecatedTables,
                ChaindataTablesCfg, TxpoolTablesCfg, SentryTablesCfg,
                DownloaderTablesCfg, ReconTablesCfg, runs, declared, lookup,
                conc>>

\* A writer transforms a key and a value for a chain-data table
EncodeKV ==
    /\ runs >= 1
    /\ \E table \in Range(ChaindataTables), len \in KeyLens,
          seed \in 0..MaxSeed, vlen \in 0..MaxValLen :
          LET k == Key(len, seed)
              v == Value(vlen, seed)
              e == Encode(ChaindataTablesCfg[table], k, v)
          IN  codec' = [op |-> "encoded", table |-> table,
                        key |-> k, value |-> v,
                        pkey |-> e.key, pvalue |-> e.value,
                        dkey |-> <<>>, dvalue |-> <<>>]
    /\ UnchangedRegistry

\* A reader transforms the stored pair back
DecodeKV ==
    /\ codec.op = "encoded"
    /\ LET d == Decode(ChaindataTablesCfg[codec.table], codec.pkey, codec.pvalue)
       IN  codec' = [codec EXCEPT !.op = "decoded",
                                  !.dkey = d.key, !.dvalue = d.value]
    /\ UnchangedRegistry

\* The chain-data tables of ChaindataNames in the order of the source
CodecTables == <<"Code", "PlainState", "HashedStorage", "CodeKeys">>

InitCodec == Declared(CodecTables, ChaindataDeprecatedTablesLiteral)

NextCodec == reinit \/ EncodeKV \/ DecodeKV

SpecCodec == InitCodec /\ [][NextCodec]_vars

-----------------------------------------------------------------------------
(* init() statement by statement, with reader threads. *)

\* Readers that run while init() is still running
PackageInitializedLazy == TRUE

\* init() is the package's initialisation function: the Go runtime runs it
\* once, in one goroutine, to completion before any other code of the
\* program can use the package
PackageInitialized == conc.pc = "done"

UnchangedLists ==
    UNCHANGED <<TxPoolTables, SentryTables, DownloaderTables, ReconTables,
                ChaindataDeprecatedTables, declared, lookup, codec>>

\* init() calls reinit(), which calls sortBuckets()
initSort ==
    /\ conc.pc = "start"
    /\ ChaindataTables' = sortBuckets(ChaindataTables)
    /\ conc' = [conc EXCEPT !.pc = "chaindata", !.calls = @ + 1]
    /\ UNCHANGED <<ChaindataTablesCfg, TxpoolTablesCfg, SentryTablesCfg,
                   DownloaderTablesCfg, ReconTablesCfg, runs>>
    /\ UnchangedLists

\* the loop over ChaindataTables
initChaindata ==
    /\ conc.pc = "chaindata"
    /\ ChaindataTablesCfg' = FillDefaults(ChaindataTablesCfg, ChaindataTables)
    /\ conc' = [conc EXCEPT !.pc = "deprecated"]
    /\ UNCHANGED <<ChaindataTables, TxpoolTablesCfg, SentryTablesCfg,
                   DownloaderTablesCfg, ReconTablesCfg, runs>>
    /\ UnchangedLists

\* the loop over ChaindataDeprecatedTables
initDeprecated ==
    /\ conc.pc = "deprecated"
    /\ ChaindataTablesCfg' =
          MarkDeprecated(ChaindataTablesCfg, ChaindataDeprecatedTables)
    /\ conc' = [conc EXCEPT !.pc = "txpool"]
    /\ UNCHANGED <<ChaindataTables, TxpoolTablesCfg, SentryTablesCfg,
                   DownloaderTablesCfg, ReconTablesCfg, runs>>
    /\ UnchangedLists

\* the loop over TxPoolTables
initTxPool ==
    /\ conc.pc = "txpool"
    /\ TxpoolTablesCfg' = FillDefaults(TxpoolTablesCfg, TxPoolTables)
    /\ conc' = [conc EXCEPT !.pc = "sentry"]
    /\ UNCHANGED <<ChaindataTables, ChaindataTablesCfg, SentryTablesCfg,
                   DownloaderTablesCfg, ReconTablesCfg, runs>>
    /\ UnchangedLists

\* the loop over SentryTables
initSentry ==
    /\ conc.pc = "sentry"
    /\ SentryTablesCfg' = FillDefaults(SentryTablesCfg, SentryTables)
    /\ conc' = [conc EXCEPT !.pc = "downloader"]
    /\ UNCHANGED <<ChaindataTables, ChaindataTablesCfg, TxpoolTablesCfg,
                   DownloaderTablesCfg, ReconTablesCfg, runs>>
    /\ UnchangedLists

\* the loop over DownloaderTables
initDownloader ==
    /\ conc.pc = "downloader"
    /\ DownloaderTablesCfg' = FillDefaults(DownloaderTablesCfg, DownloaderTables)
    /\ conc' = [conc EXCEPT !.pc = "recon"]
    /\ UNCHANGED <<ChaindataTables, ChaindataTablesCfg, TxpoolTablesCfg,
                   SentryTablesCfg, ReconTablesCfg, runs>>
    /\ UnchangedLists

\* the loop over ReconTables; reinit() and init() return
initRecon ==
    /\ conc.pc = "recon"
    /\ ReconTablesCfg' = FillDefaults(ReconTablesCfg, ReconTables)
    /\ conc' = [conc EXCEPT !.pc = "done"]
    /\ runs' = runs + 1
    /\ UNCHANGED <<ChaindataTables, ChaindataTablesCfg, TxpoolTablesCfg,
                   SentryTablesCfg, DownloaderTablesCfg>>
    /\ UnchangedLists

\* A reader thread reads, for the first time, the list and the map of a
\* catalog
Read ==
    /\ PackageInitialized
    /\ \E r \in Readers, catalog \in Catalogs :
          /\ conc.seen[r] = NoSnapshot
          /\ conc' = [conc EXCEPT !.seen[r] =
                        [catalog |-> catalog, tables |-> Tables(catalog),
                         cfg |-> Cfg(catalog)]]
    /\ UNCHANGED <<ChaindataTables, ChaindataTablesCfg, TxpoolTablesCfg,
                   SentryTablesCfg, DownloaderTablesCfg, ReconTablesCfg, runs>>
    /\ UnchangedLists

NextConc ==
    \/ initSort \/ initChaindata \/ initDeprecated \/ initTxPool
    \/ initSentry \/ initDownloader \/ initRecon \/ Read

SpecConc == Init /\ [][NextConc]_vars

-----------------------------------------------------------------------------
(* Properties. *)

\* The orderings of a list without repeated names
Perms(list) ==
    {q \in [1..Len(list) -> Range(list)] : Range(q) = Range(list)}

\* Byte-wise order of two strings: a is a proper prefix of b, or the
\* strings first differ at a position where a has the smaller byte
ByteBefore(a, b) ==
    \/ Len(a) < Len(b) /\ \A k \in 1..Len(a) : a[k] = b[k]
    \/ \E k \in 1..Len(a) :
          /\ k <= Len(b)
          /\ a[k] < b[k]
          /\ \A m \in 1..(k - 1) : a[m] = b[m]

\* list[i] < list[j] for all positions i < j
Ascending(list) ==
    \A i, j \in DOMAIN list :
        i < j => ByteBefore(Bytes[list[i]], Bytes[list[j]])

\* The list of a catalog as declared
DeclaredTables(catalog) ==
    IF catalog = "chaindata" THEN declared ELSE Tables(catalog)

\* What reinit leaves of a catalog declared with the list p
Finalized(catalog, p) ==
    IF catalog = "chaindata"
    THEN reinitChaindata(p, ExplicitCfg(p), ChaindataDeprecatedTables)
    ELSE reinitOther(p, EmptyCfg)

\* C1 (completeness): once reinit has run, every name in every catalog's
\* table list has an entry in that catalog's configuration map.
C1_Completeness ==
    runs >= 1 =>
        \A catalog \in Catalogs :
            \A n \in Range(Tables(catalog)) : n \in DOMAIN Cfg(catalog)

\* reinit has run on a chain-data list holding a table without explicit
\* configuration, and the tx-pool map was empty before
C1_Witness ==
    /\ runs >= 1
    /\ \E n \in Range(ChaindataTables) : n \notin DOMAIN ExplicitCfg(declared)
    /\ Range(TxPoolTables) # {}

\* C2 (deprecation propagation): once reinit has run, every name in
\* ChaindataDeprecatedTables has an entry with IsDeprecated = TRUE, also a
\* name without explicit configuration and a name absent from
\* ChaindataTables.
C2_DeprecationPropagation ==
    runs >= 1 =>
        \A n \in Range(ChaindataDeprecatedTables) :
            /\ n \in DOMAIN ChaindataTablesCfg
            /\ ChaindataTablesCfg[n].IsDeprecated

\* reinit has run with one deprecated name absent from the table list and
\* another one in it
C2_Witness ==
    /\ runs >= 1
    /\ \E n \in Range(ChaindataDeprecatedTables) : n \notin Range(ChaindataTables)
    /\ \E n \in Range(ChaindataDeprecatedTables) : n \in Range(ChaindataTables)

\* C3 as claimed (canonical order): once reinit has run, the name list of
\* every catalog is in byte-wise ascending order.
C3_EveryCatalogSorted ==
    runs >= 1 => \A catalog \in Catalogs : Ascending(Tables(catalog))

\* C3 as amended: once reinit has run, the chain-data name list
\* (ChaindataTables) is in byte-wise ascending order.
C3_ChaindataSorted ==
    runs >= 1 => Ascending(ChaindataTables)

\* reinit has run on a chain-data list of three names that was declared
\* out of order
C3_Witness ==
    /\ runs >= 1
    /\ Len(ChaindataTables) >= 3
    /\ ~Ascending(declared)

\* C4 as claimed (ordinal assignment): once reinit has run, the DBI of every
\* name in a catalog's table list equals the name's index in that list.
C4_OrdinalIsIndex ==
    runs >= 1 =>
        \A catalog \in Catalogs :
            \A i \in DOMAIN Tables(catalog) :
                /\ Tables(catalog)[i] \in DOMAIN Cfg(catalog)
                /\ Cfg(catalog)[Tables(catalog)[i]].DBI = i - 1

\* The lists and the maps of all catalogs
AllTables == [catalog \in Catalogs |-> Tables(catalog)]
AllCfg == [catalog \in Catalogs |-> Cfg(catalog)]

\* C5 (idempotence): a call of reinit on the state an earlier call of
\* reinit produced leaves every list and every map as it was.
C5_Idempotent ==
    [][(runs >= 1 /\ runs' = runs + 1) =>
          (AllTables' = AllTables /\ AllCfg' = AllCfg)]_vars

\* reinit has run twice on a list declared out of order, with a deprecated
\* name
C5_Witness ==
    /\ runs >= 2
    /\ ~Ascending(declared)
    /\ ChaindataDeprecatedTables # <<>>

\* C6 as claimed (order independence): for every catalog and every ordering
\* of its declared names, reinit leaves the same list and the same DBI for
\* every name as it leaves for the declared ordering.
C6_EveryCatalogOrderIndependent ==
    runs >= 1 =>
        \A catalog \in Catalogs :
            \A p \in Perms(DeclaredTables(catalog)) :
                LET r == Finalized(catalog, p)
                IN  /\ r.tables = Tables(catalog)
                    /\ \A n \in Range(p) :
                          r.cfg[n].DBI = Cfg(catalog)[n].DBI

\* C6 as amended: for every ordering of the declared chain-data names,
\* reinit leaves the same ChaindataTables and the same DBI for every name as
\* it leaves for the declared ordering.
C6_ChaindataOrderIndependent ==
    runs >= 1 =>
        \A p \in Perms(declared) :
            LET r == Finalized("chaindata", p)
            IN  /\ r.tables = ChaindataTables
                /\ \A n \in Range(p) :
                      r.cfg[n].DBI = ChaindataTablesCfg[n].DBI

\* reinit has run on a chain-data list that has more than one ordering
C6_Witness ==
    /\ runs >= 1
    /\ Cardinality(Perms(declared)) >= 6
    /\ declared # ChaindataTables

\* The configuration entry of the table of the last transformation
CodecCfg == ChaindataTablesCfg[codec.table]

\* C7 (DupSort round trip): for a table with AutoDupSortKeysConversion and a
\* key of length DupFromLen, the physical key is key[:DupToLen], the
\* physical value is key[DupToLen:] ++ value, and decoding the pair gives
\* back the key and the value; for PlainState a key of 60 bytes is split
\* into a physical key of 28 bytes and 32 more bytes of value.
C7_RoundTrip ==
    (/\ codec.op \in {"encoded", "decoded"}
     /\ CodecCfg.AutoDupSortKeysConversion
     /\ Len(codec.key) = CodecCfg.DupFromLen) =>
        /\ codec.pkey = SubSeq(codec.key, 1, CodecCfg.DupToLen)
        /\ codec.pvalue =
              SubSeq(codec.key, CodecCfg.DupToLen + 1, Len(codec.key))
                 \o codec.value
        /\ codec.op = "decoded" =>
              (codec.dkey = codec.key /\ codec.dvalue = codec.value)
        /\ (codec.table = "PlainState" /\ Len(codec.key) = 60) =>
              (Len(codec.pkey) = 28
                  /\ Len(codec.pvalue) = 32 + Len(codec.value))

\* a PlainState key of 60 bytes and a non-empty value have been encoded and
\* decoded
C7_Witness ==
    /\ codec.op = "decoded"
    /\ codec.table = "PlainState"
    /\ Len(codec.key) = 60
    /\ Len(codec.value) > 0
    /\ codec.pkey # codec.key

\* C8 (DupSort parameters): in every configuration map, before and after
\* reinit, every entry with AutoDupSortKeysConversion has
\* DupFromLen >= DupToLen >= 0.
C8_DupSortParameters ==
    \A catalog \in Catalogs :
        \A n \in DOMAIN Cfg(catalog) :
            Cfg(catalog)[n].AutoDupSortKeysConversion =>
                /\ Cfg(catalog)[n].DupFromLen >= Cfg(catalog)[n].DupToLen
                /\ Cfg(catalog)[n].DupToLen >= 0

\* reinit has run on a map holding both entries with
\* AutoDupSortKeysConversion and has created an entry
C8_Witness ==
    /\ runs >= 1
    /\ {"HashedStorage", "PlainState"} \subseteq DOMAIN ChaindataTablesCfg
    /\ \E n \in DOMAIN ChaindataTablesCfg : n \notin DOMAIN ExplicitCfg(declared)

C10_DuplicateAborts ==
    (\E catalog \in Catalogs : HasDuplicate(Tables(catalog))) => runs = 0

\* What a reader sees of a finalized catalog: the list and the map reinit
\* leaves, the chain-data list sorted, an entry for every listed name, and
\* every deprecated name flagged
SeesFinalized(snap) ==
    LET f == Finalized(snap.catalog, DeclaredTables(snap.catalog))
    IN  /\ snap.tables = f.tables
        /\ snap.cfg = f.cfg
        /\ snap.catalog = "chaindata" => Ascending(snap.tables)
        /\ \A n \in Range(snap.tables) : n \in DOMAIN snap.cfg
        /\ \A n \in Range(Deprecated(snap.catalog)) :
              n \in DOMAIN snap.cfg /\ snap.cfg[n].IsDeprecated

\* C11 (init-once under concurrency): with several reader threads, reinit
\* is called at most once, exactly once when init() has returned, and no
\* reader sees a list or a map that is not finalized (an unsorted
\* chain-data list, a listed name without entry, a deprecated name not
\* flagged).
C11_InitOnce ==
    /\ conc.calls <= 1
    /\ conc.pc = "done" => (conc.calls = 1 /\ runs = 1)
    /\ \A r \in Readers :
          conc.seen[r] # NoSnapshot => SeesFinalized(conc.seen[r])

\* two readers have read chain-data, declared out of order with a table
\* that has no explicit entry and with a deprecated name
C11_Witness ==
    /\ conc.pc = "done"
    /\ \A r \in {1, 2} : conc.seen[r].catalog = "chaindata"
    /\ ~Ascending(declared)
    /\ \E n \in Range(declared) : n \notin DOMAIN ExplicitCfg(declared)
    /\ ChaindataDeprecatedTables # <<>>

\* The explicit configuration of a catalog, as declared
DeclaredCfg(catalog) ==
    IF catalog = "chaindata" THEN ExplicitCfg(declared) ELSE EmptyCfg

\* C12 (default fill): once reinit has run, every listed name that had no
\* explicit entry and is not in the catalog's deprecated list has an entry
\* with Flags = Default, AutoDupSortKeysConversion = FALSE,
\* DupFromLen = DupToLen = 0 and IsDeprecated = FALSE.
C12_DefaultFill ==
    runs >= 1 =>
        \A catalog \in Catalogs :
            \A n \in Range(Tables(catalog)) :
                (/\ n \notin DOMAIN DeclaredCfg(catalog)
                 /\ n \notin Range(Deprecated(catalog))) =>
                    /\ n \in DOMAIN Cfg(catalog)
                    /\ Cfg(catalog)[n].Flags = Default
                    /\ ~Cfg(catalog)[n].AutoDupSortKeysConversion
                    /\ Cfg(catalog)[n].DupFromLen = 0
                    /\ Cfg(catalog)[n].DupToLen = 0
                    /\ ~Cfg(catalog)[n].IsDeprecated

\* reinit has run on a chain-data list that holds a table without explicit
\* entry beside an explicitly configured one, with a deprecated list
C12_Witness ==
    /\ runs >= 1
    /\ "Code" \in Range(ChaindataTables)
    /\ "Code" \in DOMAIN ChaindataTablesCfg
    /\ DOMAIN ExplicitCfg(declared) # {}
    /\ Len(ChaindataDeprecatedTables) >= 2

\* The names of a list with the number of times each occurs
Occurrences(list) ==
    [n \in Range(list) |-> Cardinality({i \in DOMAIN list : list[i] = n})]

\* C13 (frame of reinit): a call of reinit leaves Flags,
\* AutoDupSortKeysConversion, DupFromLen and DupToLen of every entry that
\* exists before it unchanged, changes IsDeprecated only from FALSE to TRUE
\* and only for names in the deprecated list, removes no entry from any
\* map, and adds no name to and removes no name from any list.
C13_Frame ==
    [][runs' = runs + 1 =>
          \A catalog \in Catalogs :
              /\ Occurrences(AllTables'[catalog]) = Occurrences(AllTables[catalog])
              /\ \A n \in DOMAIN AllCfg[catalog] :
                    /\ n \in DOMAIN AllCfg'[catalog]
                    /\ AllCfg'[catalog][n].Flags = AllCfg[catalog][n].Flags
                    /\ AllCfg'[catalog][n].AutoDupSortKeysConversion =
                          AllCfg[catalog][n].AutoDupSortKeysConversion
                    /\ AllCfg'[catalog][n].DupFromLen =
                          AllCfg[catalog][n].DupFromLen
                    /\ AllCfg'[catalog][n].DupToLen = AllCfg[catalog][n].DupToLen
                    /\ AllCfg'[catalog][n].IsDeprecated # AllCfg[catalog][n].IsDeprecated
                          => /\ AllCfg'[catalog][n].IsDeprecated
                             /\ n \in Range(Deprecated(catalog))]_vars

\* reinit has run on an unsorted chain-data list in which the explicitly
\* configured PlainState is deprecated: its entry is flagged and keeps its
\* DupSort parameters
C13_Witness ==
    /\ runs >= 1
    /\ declared # ChaindataTables
    /\ "PlainState" \in Range(ChaindataTables)
    /\ "PlainState" \in Range(ChaindataDeprecatedTables)
    /\ ChaindataTablesCfg["PlainState"].IsDeprecated
    /\ ChaindataTablesCfg["PlainState"].DupFromLen = 60

====
